---- MODULE Spec2Model ----
(***************************************************************************)
(* A model of the scripts of srst2.  From scripts/slurm_srst2.py: the      *)
(* decomposition of a read file path (get_readFile_components), the        *)
(* resolution of the input files into sample-keyed read sets               *)
(* (read_file_sets), the indexing of the reference files and the           *)
(* per-sample jobs of main.  From scripts/utils.py: run_command and        *)
(* check_command_version with its two version checkers.  From              *)
(* scripts/srst2_gui.py: the form, its Run button and Gui.run.             *)
(*                                                                         *)
(* A Python string is a sequence of one-character strings, so that         *)
(* "a_1.fq" is <<"a", "_", "1", ".", "f", "q">>.  The characters are the   *)
(* ones written in this module; the newline, which is the one character    *)
(* the regular expression "." does not match, is only in what the version  *)
(* commands write.                                                         *)
(***************************************************************************)
EXTENDS Integers, Sequences, FiniteSets, TLC

VARIABLES
    input_se,             \* args.input_se: sequence of paths (<<>> when not given)
    input_pe,             \* args.input_pe: sequence of paths (<<>> when not given)
    forward,              \* args.forward: the forward designator, a pattern
    reverse,              \* args.reverse: the reverse designator, a pattern
    pc,                   \* position of the program
    fileSets,             \* read_file_sets: fileSets, key -> value
    forward_reads,        \* read_file_sets: forward_reads, key -> path
    reverse_reads,        \* read_file_sets: reverse_reads, key -> path
    num_single_readsets,  \* read_file_sets: counter
    num_paired_readsets,  \* read_file_sets: counter
    printed,              \* the lines printed so far, in order
    full_file_path,       \* get_readFile_components: its argument
    components,           \* get_readFile_components: its result
    output,               \* args.output: the label of the outputs
    other_args,           \* args.other_args: its words, or not given (None)
    db,                   \* main: db, the reference files to index
    ix,                   \* bowtie_index, samtools_index: place in fasta_files
    index_files,          \* the index files that exist on disk
    todo,                 \* main: the samples its loop has still to visit
    log,                  \* the external commands run so far, in order
    run_button,           \* Gui: run_button['state']
    single_end_variable,  \* Gui: what single_end_variable.get() gives
    paired_end_variable,  \* Gui: what paired_end_variable.get() gives
    min_coverage_variable \* Gui: the text of the "Min Coverage" spin box

\* The arguments, the locals of main and its surroundings
argVars == <<input_se, input_pe, forward, reverse, output, other_args>>

mainVars == <<db, ix, index_files, todo, log>>

compVars == <<full_file_path, components>>

\* The form of srst2_gui.py
guiVars == <<run_button, single_end_variable, paired_end_variable, min_coverage_variable>>

vars == <<input_se, input_pe, forward, reverse, pc, fileSets, forward_reads,
          reverse_reads, num_single_readsets, num_paired_readsets, printed,
          full_file_path, components, output, other_args, db, ix, index_files,
          todo, log, run_button, single_end_variable, paired_end_variable,
          min_coverage_variable>>

-----------------------------------------------------------------------------
(* Strings *)

Max(S) == CHOOSE x \in S : \A y \in S : y <= x

\* s[i:] of Python, for a 0-based i that is here the number of characters dropped
Drop(s, n) == SubSeq(s, n + 1, Len(s))

\* s[:n] of Python
Take(s, n) == SubSeq(s, 1, n)

\* p occurs in s at (1-based) position i
StartsAt(s, i, p) ==
    /\ i >= 1
    /\ i + Len(p) - 1 <= Len(s)
    /\ \A k \in 1..Len(p) : s[i + k - 1] = p[k]

\* str.rfind(c) + 1: the 1-based position of the last c in s, 0 when there is none
RFind(s, c) ==
    LET at == {i \in 1..Len(s) : s[i] = c}
    IN  IF at = {} THEN 0 ELSE Max(at)

\* head.rstrip('/')
RStripSep(s) ==
    LET keep == {i \in 1..Len(s) : s[i] # "/"}
    IN  IF keep = {} THEN <<>> ELSE Take(s, Max(keep))

\* os.path.split (posixpath): <<head, tail>>
os_path_split(p) ==
    LET i    == RFind(p, "/")
        head == Take(p, i)
        tail == Drop(p, i)
    IN  IF head # <<>> /\ (\E k \in 1..Len(head) : head[k] # "/")
        THEN <<RStripSep(head), tail>>
        ELSE <<head, tail>>

\* os.path.splitext (genericpath._splitext): <<root, ext>>; the leading dots of
\* the file name do not start an extension
os_path_splitext(p) ==
    LET sep == RFind(p, "/")
        dot == RFind(p, ".")
    IN  IF dot > sep /\ (\E k \in (sep + 1)..(dot - 1) : p[k] # ".")
        THEN <<Take(p, dot - 1), Drop(p, dot - 1)>>
        ELSE <<p, <<>>>>

\* re.match("(.*).gz", file_name): the pattern is anchored at the start only,
\* its "." is any character, and (.*) is greedy: group 1 is the longest prefix
\* that is followed by one character and then "gz"
MatchGz(file_name) ==
    LET at == {i \in 0..(Len(file_name) - 3) :
                   file_name[i + 2] = "g" /\ file_name[i + 3] = "z"}
    IN  IF at = {}
        THEN [matched |-> FALSE, groups |-> <<>>]
        ELSE [matched |-> TRUE, groups |-> <<Take(file_name, Max(at))>>]

get_readFile_components(path) ==
    LET sp        == os_path_split(path)
        file_path == sp[1]
        m1        == MatchGz(sp[2])
        ext       == IF m1.matched THEN <<".", "g", "z">> ELSE <<>>
        file_name == IF m1.matched THEN m1.groups[1] ELSE sp[2]
        se        == os_path_splitext(file_name)
        full_ext  == se[2] \o ext
    IN  <<file_path, se[1], full_ext>>

-----------------------------------------------------------------------------
(* The two file-name patterns of read_file_sets *)

\* (_R.*)(_.*) can match from position k on
CanR(s, k) ==
    /\ StartsAt(s, k, <<"_", "R">>)
    /\ \E m \in (k + 2)..Len(s) : s[m] = "_"

\* (_L.*)(_R.*)(_.*) can match from position j on
CanL(s, j) ==
    /\ StartsAt(s, j, <<"_", "L">>)
    /\ \E k \in (j + 2)..Len(s) : CanR(s, k)

\* (_S.*)(_L.*)(_R.*)(_.*) can match from position i on
CanS(s, i) ==
    /\ StartsAt(s, i, <<"_", "S">>)
    /\ \E j \in (i + 2)..Len(s) : CanL(s, j)

\* MatchIllumina with a first group that is the shortest, not the longest, as
\* "(.*?)(_S.*)(_L.*)(_R.*)(_.*)" would match
MatchIlluminaShortest(stem) ==
    LET n  == Len(stem)
        is == {i \in 1..n : CanS(stem, i)}
        i  == CHOOSE x \in is : \A y \in is : x <= y
        j  == Max({x \in (i + 2)..n : CanL(stem, x)})
        k  == Max({x \in (j + 2)..n : CanR(stem, x)})
        m  == Max({x \in (k + 2)..n : stem[x] = "_"})
    IN  IF is = {}
        THEN [matched |-> FALSE, groups |-> <<>>]
        ELSE [matched |-> TRUE,
              groups  |-> <<Take(stem, i - 1), SubSeq(stem, i, j - 1),
                            SubSeq(stem, j, k - 1), SubSeq(stem, k, m - 1),
                            Drop(stem, m - 1)>>]

\* re.match("(.*)(_S.*)(_L.*)(_R.*)(_.*)", stem).  Every .* is greedy and the
\* engine backtracks from the left: group 1 is the longest that lets the rest
\* match, then group 2 the longest, and so on; group 5 runs to the end.
MatchIllumina(stem) ==
    LET n  == Len(stem)
        is == {i \in 1..n : CanS(stem, i)}
        i  == Max(is)
        j  == Max({x \in (i + 2)..n : CanL(stem, x)})
        k  == Max({x \in (j + 2)..n : CanR(stem, x)})
        m  == Max({x \in (k + 2)..n : stem[x] = "_"})
    IN  IF is = {}
        THEN [matched |-> FALSE, groups |-> <<>>]
        ELSE [matched |-> TRUE,
              groups  |-> <<Take(stem, i - 1), SubSeq(stem, i, j - 1),
                            SubSeq(stem, j, k - 1), SubSeq(stem, k, m - 1),
                            Drop(stem, m - 1)>>]

\* One character of a designator against one character of a stem: the
\* designator is put into the pattern unescaped, so its "." is any character
PatternChar(d, c) == d = "." \/ d = c

\* re.match("(.*)(" + designator + ")$", stem)
MatchDesignator(stem, designator) ==
    LET n == Len(stem)
        w == Len(designator)
    IN  IF w <= n /\ \A k \in 1..w : PatternChar(designator[k], stem[n - w + k])
        THEN [matched |-> TRUE, groups |-> <<Take(stem, n - w), Drop(stem, n - w)>>]
        ELSE [matched |-> FALSE, groups |-> <<>>]

-----------------------------------------------------------------------------
(* Python values *)

\* {} and d[k] = v
EmptyDict == [k \in {} |-> <<>>]

Put(d, k, v) == [x \in (DOMAIN d) \cup {k} |-> IF x = k THEN v ELSE d[x]]

\* A value of fileSets is a list of paths ([fastq], [f, r]) or a bare string
\* (fastq).  Both are kept as the paths they hold, with isList telling which.
PyList(paths) == [isList |-> TRUE, files |-> paths]

PyStr(path) == [isList |-> FALSE, files |-> <<path>>]

\* len(v): the number of paths of a list, the number of characters of a string
PyLen(v) == IF v.isList THEN Len(v.files) ELSE Len(v.files[1])

\* v[i] for a 0-based i: a path of a list, a one-character string of a string
PyItem(v, i) == IF v.isList THEN v.files[i + 1] ELSE <<v.files[1][i + 1]>>

\* args.other_args: None when --other_args is not given, else its words
NotGiven == [given |-> FALSE, words |-> <<>>]

Given(words) == [given |-> TRUE, words |-> words]

\* One printed line
Line(msg, file, n) == [msg |-> msg, file |-> file, n |-> n]

\* The orders in which a for loop may visit the keys of a dict
Orders(S) ==
    {o \in [1..Cardinality(S) -> S] :
        \A a, b \in 1..Cardinality(S) : a # b => o[a] # o[b]}

-----------------------------------------------------------------------------
(* read_file_sets *)

\* The locals of read_file_sets before its first loop
Fresh ==
    [fileSets            |-> EmptyDict,
     forward_reads       |-> EmptyDict,
     reverse_reads       |-> EmptyDict,
     num_single_readsets |-> 0,
     num_paired_readsets |-> 0,
     printed             |-> <<>>]

\* The sample key a single-end file is stored under
SingleEndKey(fastq) ==
    LET stem == get_readFile_components(fastq)[2]
        m    == MatchIllumina(stem)
    IN  IF m.matched THEN m.groups[1] ELSE stem

\* One pass of the loop over args.input_se
SingleEndFile(st, fastq) ==
    [st EXCEPT !.fileSets = Put(@, SingleEndKey(fastq), PyList(<<fastq>>)),
               !.num_single_readsets = @ + 1]

\* How the loop over args.input_pe takes one file: the bucket it goes to
\* ("forward", "reverse", "single" for an Illumina name with another _R value,
\* "none" when nothing matches) and the key it is stored under
Classify(fastq, fwd, rev) ==
    LET stem == get_readFile_components(fastq)[2]
        m    == MatchIllumina(stem)
        mf   == MatchDesignator(stem, fwd)
        mr   == MatchDesignator(stem, rev)
    IN  IF ~m.matched
        THEN IF mf.matched
             THEN [bucket |-> "forward", key |-> mf.groups[1]]
             ELSE IF mr.matched
                  THEN [bucket |-> "reverse", key |-> mr.groups[1]]
                  ELSE [bucket |-> "none", key |-> <<>>]
        ELSE IF m.groups[4] = <<"_", "R", "1">>
             THEN [bucket |-> "forward", key |-> m.groups[1]]
             ELSE IF m.groups[4] = <<"_", "R", "2">>
                  THEN [bucket |-> "reverse", key |-> m.groups[1]]
                  ELSE [bucket |-> "single", key |-> stem]

\* PairedEndFile with the file that matches nothing stored like the Illumina
\* file of unknown direction, under its stem
PairedEndFileKeepsUnknown(st, fastq, fwd, rev) ==
    LET c == Classify(fastq, fwd, rev)
    IN  CASE c.bucket = "forward" ->
                 [st EXCEPT !.forward_reads = Put(@, c.key, fastq)]
          [] c.bucket = "reverse" ->
                 [st EXCEPT !.reverse_reads = Put(@, c.key, fastq)]
          [] c.bucket = "single" ->
                 [st EXCEPT !.printed = @ \o <<Line("could_not_determine", fastq, 0),
                                              Line("miseq_hint", <<>>, 0)>>,
                            !.fileSets = Put(@, c.key, PyStr(fastq)),
                            !.num_single_readsets = @ + 1]
          [] c.bucket = "none" ->
                 [st EXCEPT !.printed = Append(@, Line("could_not_determine", fastq, 0)),
                            !.fileSets = Put(@, get_readFile_components(fastq)[2], PyStr(fastq)),
                            !.num_single_readsets = @ + 1]

\* One pass of the loop over args.input_pe
PairedEndFile(st, fastq, fwd, rev) ==
    LET c == Classify(fastq, fwd, rev)
    IN  CASE c.bucket = "forward" ->
                 [st EXCEPT !.forward_reads = Put(@, c.key, fastq)]
          [] c.bucket = "reverse" ->
                 [st EXCEPT !.reverse_reads = Put(@, c.key, fastq)]
          [] c.bucket = "single" ->
                 [st EXCEPT !.printed = @ \o <<Line("could_not_determine", fastq, 0),
                                              Line("miseq_hint", <<>>, 0)>>,
                            !.fileSets = Put(@, c.key, PyStr(fastq)),
                            !.num_single_readsets = @ + 1]
          [] c.bucket = "none" ->
                 [st EXCEPT !.printed = Append(@, Line("could_not_determine", fastq, 0))]

\* One pass of "for sample in forward_reads"
StoreForward(st, sample) ==
    IF sample \in DOMAIN st.reverse_reads
    THEN [st EXCEPT !.fileSets = Put(@, sample,
                         PyList(<<st.forward_reads[sample], st.reverse_reads[sample]>>)),
                    !.num_paired_readsets = @ + 1]
    ELSE [st EXCEPT !.fileSets = Put(@, sample, PyList(<<st.forward_reads[sample]>>)),
                    !.num_single_readsets = @ + 1,
                    !.printed = Append(@, Line("no_pair", st.forward_reads[sample], 0))]

\* One pass of "for sample in reverse_reads"
StoreReverse(st, sample) ==
    IF sample \notin DOMAIN st.fileSets
    THEN [st EXCEPT !.fileSets = Put(@, sample, PyStr(st.reverse_reads[sample])),
                    !.num_single_readsets = @ + 1,
                    !.printed = Append(@, Line("no_pair", st.reverse_reads[sample], 0))]
    ELSE st

RECURSIVE SingleEndLoop(_, _)
SingleEndLoop(st, files) ==
    IF files = <<>> THEN st
    ELSE SingleEndLoop(SingleEndFile(st, Head(files)), Tail(files))

RECURSIVE PairedEndLoop(_, _, _, _)
PairedEndLoop(st, files, fwd, rev) ==
    IF files = <<>> THEN st
    ELSE PairedEndLoop(PairedEndFile(st, Head(files), fwd, rev), Tail(files), fwd, rev)

RECURSIVE ForwardLoop(_, _)
ForwardLoop(st, order) ==
    IF order = <<>> THEN st
    ELSE ForwardLoop(StoreForward(st, Head(order)), Tail(order))

RECURSIVE ReverseLoop(_, _)
ReverseLoop(st, order) ==
    IF order = <<>> THEN st
    ELSE ReverseLoop(StoreReverse(st, Head(order)), Tail(order))

\* The two summary lines at the end of read_file_sets
Totals(paired, single) ==
    (IF paired > 0 THEN <<Line("total_paired", <<>>, paired)>> ELSE <<>>)
    \o (IF single > 0 THEN <<Line("total_single", <<>>, single)>> ELSE <<>>)

\* The locals of read_file_sets as one record
Locals ==
    [fileSets            |-> fileSets,
     forward_reads       |-> forward_reads,
     reverse_reads       |-> reverse_reads,
     num_single_readsets |-> num_single_readsets,
     num_paired_readsets |-> num_paired_readsets,
     printed             |-> printed]

SetLocals(st) ==
    /\ fileSets' = st.fileSets
    /\ forward_reads' = st.forward_reads
    /\ reverse_reads' = st.reverse_reads
    /\ num_single_readsets' = st.num_single_readsets
    /\ num_paired_readsets' = st.num_paired_readsets
    /\ printed' = st.printed

\* if args.input_se: the loop over the single-end files
SingleEnd ==
    /\ pc = "start"
    /\ input_se # <<>>
    /\ SetLocals(SingleEndLoop(Fresh, input_se))
    /\ pc' = "stored"
    /\ UNCHANGED <<guiVars, argVars, mainVars, compVars>>

\* The paired-end branch as an "if" of its own, taken whether or not
\* --input_se is given
PairedEndFirst ==
    /\ pc = "start"
    /\ input_pe # <<>>
    /\ SetLocals(PairedEndLoop(Fresh, input_pe, forward, reverse))
    /\ pc' = "classified"
    /\ UNCHANGED <<guiVars, argVars, mainVars, compVars>>

\* elif args.input_pe: the loop that sorts the files into forward and reverse
PairedEnd ==
    /\ pc = "start"
    /\ input_se = <<>>
    /\ input_pe # <<>>
    /\ SetLocals(PairedEndLoop(Fresh, input_pe, forward, reverse))
    /\ pc' = "classified"
    /\ UNCHANGED <<guiVars, argVars, mainVars, compVars>>

\* "store in pairs": the loop over forward_reads, then the one over
\* reverse_reads, each in whatever order the dict gives its keys
StorePairs ==
    /\ pc = "classified"
    /\ \E fo \in Orders(DOMAIN forward_reads), ro \in Orders(DOMAIN reverse_reads) :
           SetLocals(ReverseLoop(ForwardLoop(Locals, fo), ro))
    /\ pc' = "stored"
    /\ UNCHANGED <<guiVars, argVars, mainVars, compVars>>

\* Neither list is given: both branches are skipped
NoInput ==
    /\ pc = "start"
    /\ input_se = <<>>
    /\ input_pe = <<>>
    /\ SetLocals(Fresh)
    /\ pc' = "stored"
    /\ UNCHANGED <<guiVars, argVars, mainVars, compVars>>

\* The summary lines and "return fileSets"
Return ==
    /\ pc = "stored"
    /\ printed' = printed \o Totals(num_paired_readsets, num_single_readsets)
    /\ pc' = "returned"
    /\ UNCHANGED <<guiVars, argVars, mainVars, compVars, fileSets, forward_reads, reverse_reads,
                   num_single_readsets, num_paired_readsets>>

-----------------------------------------------------------------------------
(* The inputs *)

\* The most files given on one command line
MaxFiles == 3

\* The longest path that is decomposed on its own
MaxPathLen == 5

FQ == <<".", "f", "q">>

FQGZ == <<".", "f", "q", ".", "g", "z">>

\* The end of an Illumina/MiSeq file name: _S<a>_L<b>_R<r>_<c>
IlluminaTail(a, b, r, c) == <<"_", "S">> \o a \o <<"_", "L">> \o b \o <<"_", "R">> \o r \o <<"_">> \o c

Tail1(r) == IlluminaTail(<<"1">>, <<"1">>, <<r>>, <<"1">>)

\* The read files a command line may name
FilePool ==
    { <<"s">> \o Tail1("1") \o FQGZ,                \* s_S1_L1_R1_1.fq.gz
      <<"s">> \o Tail1("2") \o FQGZ,                \* s_S1_L1_R2_1.fq.gz
      <<"s">> \o Tail1("3") \o FQ,                  \* s_S1_L1_R3_1.fq
      <<"s">> \o Tail1("3") \o Tail1("1") \o FQ,    \* s_S1_L1_R3_1_S1_L1_R1_1.fq
      <<"a", "_", "1">> \o FQ,                      \* a_1.fq
      <<"a", "_", "2">> \o FQ,                      \* a_2.fq
      <<"d", "/", "a", "_", "1">> \o FQ,            \* d/a_1.fq
      <<"a">> \o FQ }                               \* a.fq

\* --forward and --reverse: the defaults _1 and _2; _1 and 1, which a stem may
\* both end with; and .1 and _1, where the pattern reads the "." as any
\* character
DesignatorPairs ==
    { << <<"_", "1">>, <<"_", "2">> >>,
      << <<"_", "1">>, <<"1">> >>,
      << <<".", "1">>, <<"_", "1">> >> }

\* The lists of at most n files
Lists(n) == UNION {[1..k -> FilePool] : k \in 0..n}

\* Every non-empty string of at most n of these characters
PathChars == {"a", ".", "g", "z", "/"}

Paths(n) == UNION {[1..k -> PathChars] : k \in 1..n}

\* Gui.initialize: the two file entries are empty, "Min Coverage" shows
\* DEFAULT_MIN_COVERAGE and the Run button is in its normal state
initialize ==
    /\ run_button = "normal"
    /\ single_end_variable = PyStr(<<>>)
    /\ paired_end_variable = PyStr(<<>>)
    /\ min_coverage_variable = <<"9", "0">>

\* The state before read_file_sets runs
Idle ==
    /\ initialize
    /\ fileSets = EmptyDict
    /\ forward_reads = EmptyDict
    /\ reverse_reads = EmptyDict
    /\ num_single_readsets = 0
    /\ num_paired_readsets = 0
    /\ printed = <<>>
    /\ full_file_path = <<>>
    /\ components = <<>>
    /\ db = <<>>
    /\ ix = 0
    /\ todo = {}
    /\ log = <<>>

\* The paired-end list of a command line that gives a single-end list too:
\* read_file_sets never reads it, so one list stands for all
PairedBesideSingle == << <<"a", "_", "1">> \o FQ, <<"a", "_", "2">> \o FQ >>

\* parse_args: any command line within the bounds; --input_se and --input_pe
\* may both be given
Init ==
    /\ input_se \in Lists(MaxFiles)
    /\ input_pe \in IF input_se = <<>> THEN Lists(MaxFiles) ELSE {<<>>, PairedBesideSingle}
    /\ \E d \in DesignatorPairs : forward = d[1] /\ reverse = d[2]
    /\ output = <<"o">>
    /\ other_args = NotGiven
    /\ index_files = {}
    /\ pc = "start"
    /\ Idle

Next == SingleEnd \/ PairedEnd \/ StorePairs \/ NoInput \/ Return

Spec == Init /\ [][Next]_vars

-----------------------------------------------------------------------------
(* get_readFile_components on its own *)

InitComponents ==
    /\ full_file_path \in Paths(MaxPathLen)
    /\ components = <<>>
    /\ pc = "decompose"
    /\ input_se = <<>>
    /\ input_pe = <<>>
    /\ forward = <<"_", "1">>
    /\ reverse = <<"_", "2">>
    /\ fileSets = EmptyDict
    /\ forward_reads = EmptyDict
    /\ reverse_reads = EmptyDict
    /\ num_single_readsets = 0
    /\ num_paired_readsets = 0
    /\ printed = <<>>
    /\ output = <<"o">>
    /\ other_args = NotGiven
    /\ index_files = {}
    /\ db = <<>>
    /\ ix = 0
    /\ todo = {}
    /\ log = <<>>
    /\ initialize

Decompose ==
    /\ pc = "decompose"
    /\ components' = get_readFile_components(full_file_path)
    /\ pc' = "decomposed"
    /\ UNCHANGED <<guiVars, argVars, mainVars, fileSets, forward_reads, reverse_reads,
                   num_single_readsets, num_paired_readsets, printed, full_file_path>>

NextComponents == Decompose

SpecComponents == InitComponents /\ [][NextComponents]_vars

-----------------------------------------------------------------------------
(* read_file_sets on the two files of one Illumina sample *)

\* Sample names: empty, plain, ending like a designator, and looking like an
\* Illumina file name themselves
SampleNames ==
    { <<>>, <<"s">>, <<"a", "_", "1">>, <<"s">> \o Tail1("3"), <<"s">> \o Tail1("2") }

\* The numbers of an Illumina file name
Numbers == { <<"1">>, <<"0", "0", "1">> }

Dirs == { <<>>, <<"d", "/">> }

InitIllumina ==
    /\ \E X \in SampleNames, a, b, c \in Numbers, d1, d2 \in Dirs, e \in {FQ, FQGZ} :
           LET r1 == d1 \o X \o IlluminaTail(a, b, <<"1">>, c) \o e
               r2 == d2 \o X \o IlluminaTail(a, b, <<"2">>, c) \o e
           IN  input_pe \in {<<r1, r2>>, <<r2, r1>>}
    /\ input_se = <<>>
    /\ \E d \in DesignatorPairs : forward = d[1] /\ reverse = d[2]
    /\ output = <<"o">>
    /\ other_args = NotGiven
    /\ index_files = {}
    /\ pc = "start"
    /\ Idle

NextIllumina == PairedEnd \/ StorePairs \/ Return

SpecIllumina == InitIllumina /\ [][NextIllumina]_vars

-----------------------------------------------------------------------------
(* main: the reference files, their indexes, and one job for each sample *)

\* The words of --other_args that start with "--"
Options == {"--mlst_db", "--gene_db", "--min_depth"}

Min(S) == CHOOSE x \in S : \A y \in S : x <= y

\* re.search(r'(--mlst_db) (.*?) .*', other_args): the word after the first
\* --mlst_db that has a word and then a space behind it
MlstDb(words) ==
    LET at == {i \in 1..(Len(words) - 2) : words[i] = "--mlst_db"}
    IN  IF at = {} THEN <<>> ELSE <<words[Min(at) + 1]>>

\* re.search(r'(--gene_db) (.*?) --', other_args), and when that finds nothing
\* re.search(r'(--gene_db) (.*?)$', other_args): the words after --gene_db up to
\* the next word that starts with "--", or else up to the end
GeneDb(words) ==
    LET n      == Len(words)
        before == {i \in 1..n : /\ words[i] = "--gene_db"
                                /\ \E j \in (i + 2)..n : words[j] \in Options}
        atEnd  == {i \in 1..(n - 1) : words[i] = "--gene_db"}
    IN  IF before # {}
        THEN LET i == Min(before)
                 j == Min({x \in (i + 2)..n : words[x] \in Options})
             IN  SubSeq(words, i + 1, j - 1)
        ELSE IF atEnd # {}
             THEN SubSeq(words, Min(atEnd) + 1, n)
             ELSE <<>>

\* An external command that was run
Ran(step, fasta, result, sample, cmd) ==
    [step |-> step, fasta |-> fasta, result |-> result, sample |-> sample, cmd |-> cmd,
     launch |-> "", command_stdout |-> <<>>, checked |-> <<>>, accepted |-> FALSE]

NoCmd ==
    [job_name |-> <<>>, input |-> "", files |-> <<>>, forward |-> <<>>,
     reverse |-> <<>>, output |-> <<>>, other_args |-> <<>>]

\* The command main builds for a sample: its job name and what it passes to
\* the script.  The other #SBATCH lines, "cd" and the "module load" lines are
\* text that does not depend on the sample.
JobCommand(sample) ==
    LET fastq == fileSets[sample]
    IN  IF PyLen(fastq) > 1
        THEN [job_name   |-> <<"s", "r", "s", "t", "2">> \o sample \o output,
              input      |-> "--input_pe",
              files      |-> <<PyItem(fastq, 0), PyItem(fastq, 1)>>,
              forward    |-> forward,
              reverse    |-> reverse,
              output     |-> sample \o <<"_">> \o output,
              other_args |-> other_args.words]
        ELSE [job_name   |-> <<"s", "r", "s", "t", "2">> \o sample \o output,
              input      |-> "--input_se",
              files      |-> <<PyItem(fastq, 0)>>,
              forward    |-> <<>>,
              reverse    |-> <<>>,
              output     |-> sample \o <<"_">> \o output,
              other_args |-> other_args.words]

\* How launching a command can end: it runs and exits with 0, it runs and
\* exits with another status, or it cannot be launched (OSError)
Launches == {"ok", "nonzero", "oserror"}

unchangedResolution ==
    UNCHANGED <<fileSets, forward_reads, reverse_reads, num_single_readsets,
                num_paired_readsets, printed>>

\* main, lines 166 to 177: db from args.other_args; re.search raises TypeError
\* on None, which nothing catches
ParseDb ==
    /\ pc = "returned"
    /\ IF other_args.given
       THEN /\ db' = MlstDb(other_args.words) \o GeneDb(other_args.words)
            /\ pc' = "bowtie_version"
       ELSE /\ db' = db
            /\ pc' = "crashed"
    /\ UNCHANGED <<guiVars, argVars, compVars, ix, index_files, todo, log>>
    /\ unchangedResolution

\* The characters "0" to "9" in order
Digits == <<"0", "1", "2", "3", "4", "5", "6", "7", "8", "9">>

IsDigit(c) == \E d \in DOMAIN Digits : Digits[d] = c

DigitValue(c) == (CHOOSE d \in DOMAIN Digits : Digits[d] = c) - 1

\* int(text) for a text of digits
RECURSIVE int(_)
int(text) ==
    IF text = <<>>
    THEN 0
    ELSE 10 * int(Take(text, Len(text) - 1)) + DigitValue(text[Len(text)])

\* The place where the digits that start at p end: p - 1 when there is none
DigitsFrom(s, p) ==
    LET stop == {k \in p..Len(s) : ~IsDigit(s[k])}
    IN  IF stop = {} THEN Len(s) ELSE Min(stop) - 1

\* (\d+)\.(\d+)\.(\d+) at place p of s: each \d+ takes all the digits there
\* are, and a shorter take of the first two is followed by a digit, not a "."
VersionAt(s, p) ==
    LET e1 == DigitsFrom(s, p)
        e2 == DigitsFrom(s, e1 + 2)
        e3 == DigitsFrom(s, e2 + 2)
    IN  IF /\ e1 >= p
           /\ e1 + 1 <= Len(s) /\ s[e1 + 1] = "."
           /\ e2 >= e1 + 2
           /\ e2 + 1 <= Len(s) /\ s[e2 + 1] = "."
           /\ e3 >= e2 + 2
        THEN [matched |-> TRUE,
              major   |-> int(SubSeq(s, p, e1)),
              minor   |-> int(SubSeq(s, e1 + 2, e2)),
              patch   |-> int(SubSeq(s, e2 + 2, e3))]
        ELSE [matched |-> FALSE, major |-> 0, minor |-> 0, patch |-> 0]

BOWTIE2 == <<"b", "o", "w", "t", "i", "e", "2">>

VERSION == <<" ", "v", "e", "r", "s", "i", "o", "n", " ">>

\* Where " version " and a version number can follow a "bowtie2" at place i,
\* with no newline in between (the ".*")
VersionPlaces(s, i) ==
    {j \in (i + Len(BOWTIE2))..Len(s) :
         /\ \A k \in (i + Len(BOWTIE2))..(j - 1) : s[k] # "\n"
         /\ StartsAt(s, j, VERSION)
         /\ VersionAt(s, j + Len(VERSION)).matched}

\* BOWTIE_VERSION_REGEX.search(stdout_text): the leftmost "bowtie2" that
\* matches, and for it the last " version " (".*" is greedy)
BOWTIE_VERSION_REGEX(stdout_text) ==
    LET starts == {i \in 1..Len(stdout_text) :
                       StartsAt(stdout_text, i, BOWTIE2) /\ VersionPlaces(stdout_text, i) # {}}
    IN  IF starts = {}
        THEN VersionAt(<<>>, 1)
        ELSE VersionAt(stdout_text, Max(VersionPlaces(stdout_text, Min(starts))) + Len(VERSION))

MINIMUM_BOWTIE_VERSION == <<2, 1, 0>>

\* a >= b for tuples of three numbers, as Python compares them
TupleGE(a, b) ==
    \/ a[1] > b[1]
    \/ a[1] = b[1] /\ a[2] > b[2]
    \/ a[1] = b[1] /\ a[2] = b[2] /\ a[3] >= b[3]

\* check_bowtie_version: its checker
bowtie_checker(stdout_text) ==
    LET match == BOWTIE_VERSION_REGEX(stdout_text)
    IN  IF match.matched
        THEN TupleGE(<<match.major, match.minor, match.patch>>, MINIMUM_BOWTIE_VERSION)
        ELSE FALSE

SAMTOOLS_VERSION_STR == <<"0", ".", "1", ".", "1", "8">>

\* check_command_version_literal: its checker, "version_str in stdout_text"
literal_checker(version_str, stdout_text) ==
    \E i \in 1..Len(stdout_text) : StartsAt(stdout_text, i, version_str)

\* The version_checker each of the two version commands is checked with
version_checker(step, stdout_text) ==
    IF step = "samtools"
    THEN literal_checker(<<"V", "e", "r", "s", "i", "o", "n", ":", " ">> \o SAMTOOLS_VERSION_STR, stdout_text)
    ELSE bowtie_checker(stdout_text)

\* What a version command may write: for "bowtie2 --version"
\*   "bowtie2-align version 2.1.0\n64-bit", "bowtie2 version 2.0.6",
\*   "bowtie2 version 10.0.2", "bowtie2\n version 2.1.0" and ""
\* and for "samtools"
\*   "Version: 0.1.18 (r982)", "Version: 0.1.19", "Version: 1.0" and ""
VersionOutputs(step) ==
    IF step = "samtools"
    THEN { <<"V", "e", "r", "s", "i", "o", "n", ":", " ", "0", ".", "1", ".", "1", "8", " ", "(", "r", "9", "8", "2", ")">>,
           <<"V", "e", "r", "s", "i", "o", "n", ":", " ", "0", ".", "1", ".", "1", "9">>,
           <<"V", "e", "r", "s", "i", "o", "n", ":", " ", "1", ".", "0">>,
           <<>> }
    ELSE { BOWTIE2 \o <<"-", "a", "l", "i", "g", "n">> \o VERSION \o <<"2", ".", "1", ".", "0", "\n", "6", "4", "-", "b", "i", "t">>,
           BOWTIE2 \o VERSION \o <<"2", ".", "0", ".", "6">>,
           BOWTIE2 \o VERSION \o <<"1", "0", ".", "0", ".", "2">>,
           BOWTIE2 \o <<"\n">> \o VERSION \o <<"2", ".", "1", ".", "0">>,
           <<>> }

\* How running a version command can end: it cannot be launched, or it runs,
\* exits with 0 or with another status, and has written something
VersionRuns(step) ==
    {<<"oserror", <<>>>>} \cup ({"ok", "nonzero"} \X VersionOutputs(step))

\* check_command_version with every non-zero exit status taken as a failure,
\* as if CalledProcessError were not caught
VersionCheckStrict(here, step, next) ==
    /\ pc = here
    /\ \E run \in VersionRuns(step) :
           LET called   == run[1] = "ok"
               accepted == called /\ version_checker(step, run[2])
           IN  /\ log' = Append(log, [Ran(step, "", IF accepted THEN "return" ELSE "exit",
                                          <<>>, NoCmd)
                                      EXCEPT !.launch = run[1],
                                             !.command_stdout = run[2],
                                             !.checked = IF called THEN <<run[2]>> ELSE <<>>,
                                             !.accepted = accepted])
               /\ pc' = IF accepted THEN next ELSE "exited"
    /\ ix' = 1
    /\ UNCHANGED <<guiVars, argVars, compVars, db, index_files, todo>>
    /\ unchangedResolution

\* check_command_version: exit(-1) when the command cannot be launched
\* (OSError); otherwise its output, also the output of a command that exits
\* with a non-zero status, goes to version_checker, and exit(-1) when that
\* rejects it.  The log keeps how the launch ended, the output, what the
\* checker was called with and its verdict.
VersionCheck(here, step, next) ==
    /\ pc = here
    /\ \E run \in VersionRuns(step) :
           LET called   == run[1] # "oserror"
               accepted == called /\ version_checker(step, run[2])
           IN  /\ log' = Append(log, [Ran(step, "", IF accepted THEN "return" ELSE "exit",
                                          <<>>, NoCmd)
                                      EXCEPT !.launch = run[1],
                                             !.command_stdout = run[2],
                                             !.checked = IF called THEN <<run[2]>> ELSE <<>>,
                                             !.accepted = accepted])
               /\ pc' = IF accepted THEN next ELSE "exited"
    /\ ix' = 1
    /\ UNCHANGED <<guiVars, argVars, compVars, db, index_files, todo>>
    /\ unchangedResolution

\* The loop with the exit status of the build command not looked at, as if
\* the command were run with a bare call(): the loop goes on after a failure
IndexLoopUnchecked(here, step, suffix, next) ==
    /\ pc = here
    /\ IF ix > Len(db)
       THEN /\ pc' = next
            /\ UNCHANGED <<ix, index_files, log>>
       ELSE IF <<db[ix], suffix>> \in index_files
            THEN /\ ix' = ix + 1
                 /\ UNCHANGED <<pc, index_files, log>>
            ELSE \E launch \in Launches :
                     /\ log' = Append(log, Ran(step, db[ix], launch, <<>>, NoCmd))
                     /\ index_files' = IF launch = "ok"
                                       THEN index_files \cup {<<db[ix], suffix>>}
                                       ELSE index_files
                     /\ ix' = ix + 1
                     /\ pc' = pc
    /\ UNCHANGED <<guiVars, argVars, compVars, db, todo>>
    /\ unchangedResolution

\* One pass of "for fasta in fasta_files": run_command when the index file is
\* not there; run_command raises CommandError, which nothing catches, unless
\* the command exits with 0
IndexLoop(here, step, suffix, next) ==
    /\ pc = here
    /\ IF ix > Len(db)
       THEN /\ pc' = next
            /\ UNCHANGED <<ix, index_files, log>>
       ELSE IF <<db[ix], suffix>> \in index_files
            THEN /\ ix' = ix + 1
                 /\ UNCHANGED <<pc, index_files, log>>
            ELSE \E launch \in Launches :
                     /\ log' = Append(log, Ran(step, db[ix], launch, <<>>, NoCmd))
                     /\ IF launch = "ok"
                        THEN /\ index_files' = index_files \cup {<<db[ix], suffix>>}
                             /\ ix' = ix + 1
                             /\ pc' = pc
                        ELSE /\ pc' = "crashed"
                             /\ UNCHANGED <<ix, index_files>>
    /\ UNCHANGED <<guiVars, argVars, compVars, db, todo>>
    /\ unchangedResolution

BowtieVersion == VersionCheck("bowtie_version", "bowtie2 --version", "bowtie_build")

\* main without its call of samtools_index: the jobs follow the bowtie2 indexes
BowtieBuildThenJobs == IndexLoop("bowtie_build", "bowtie2-build", ".1.bt2", "jobs")

BowtieBuild == IndexLoop("bowtie_build", "bowtie2-build", ".1.bt2", "samtools_version")

SamtoolsVersion == VersionCheck("samtools_version", "samtools", "samtools_faidx")

SamtoolsFaidx == IndexLoop("samtools_faidx", "samtools faidx", ".fai", "jobs")

\* "for sample in fileSets" begins
StartJobs ==
    /\ pc = "jobs"
    /\ todo' = DOMAIN fileSets
    /\ pc' = "job"
    /\ UNCHANGED <<guiVars, argVars, compVars, db, ix, index_files, log>>
    /\ unchangedResolution

\* One pass of "for sample in fileSets": the command is built and piped to
\* sbatch, in whatever order the dict gives its keys
SubmitJob ==
    /\ pc = "job"
    /\ \E sample \in todo :
           /\ log' = Append(log, Ran("sbatch", "", "", sample, JobCommand(sample)))
           /\ todo' = todo \ {sample}
    /\ UNCHANGED <<guiVars, argVars, compVars, pc, db, ix, index_files>>
    /\ unchangedResolution

\* The loop is over and main returns
Finish ==
    /\ pc = "job"
    /\ todo = {}
    /\ pc' = "done"
    /\ UNCHANGED <<guiVars, argVars, compVars, mainVars>>
    /\ unchangedResolution

\* The read files and the --other_args a run of main is given
MaxMainFiles == 2

MainPool ==
    { <<"a", "_", "1">> \o FQ,                      \* a_1.fq
      <<"a", "_", "2">> \o FQ,                      \* a_2.fq
      <<"s">> \o Tail1("3") \o FQ }                 \* s_S1_L1_R3_1.fq

MainLists(n) == UNION {[1..k -> MainPool] : k \in 0..n}

OtherArgs ==
    { NotGiven,
      Given(<<>>),
      Given(<<"--mlst_db", "m.fa">>),
      Given(<<"--mlst_db", "m.fa", "--gene_db", "g.fa">>),
      Given(<<"--gene_db", "g.fa", "m.fa", "--min_depth", "5">>),
      Given(<<"--mlst_db", "g.fa", "--gene_db", "g.fa", "--min_depth", "5">>) }

InitMain ==
    /\ input_se \in MainLists(MaxMainFiles)
    /\ input_pe \in IF input_se = <<>> THEN MainLists(MaxMainFiles) ELSE {<<>>}
    /\ forward = <<"_", "1">>
    /\ reverse = <<"_", "2">>
    /\ output = <<"o">>
    /\ other_args \in OtherArgs
    /\ index_files \in SUBSET {<<"m.fa", ".1.bt2">>, <<"g.fa", ".fai">>}
    /\ pc = "start"
    /\ Idle

NextMain ==
    \/ Next
    \/ ParseDb
    \/ BowtieVersion
    \/ BowtieBuild
    \/ SamtoolsVersion
    \/ SamtoolsFaidx
    \/ StartJobs
    \/ SubmitJob
    \/ Finish

SpecMain == InitMain /\ [][NextMain]_vars

\* Runs of main on one command line of each mode, for what is said of the
\* version checks alone, which do not look at the read files
InitVersion ==
    /\ input_se \in {<<>>, << <<"a">> \o FQ >>}
    /\ input_pe \in IF input_se = <<>> THEN {<<>>, PairedBesideSingle} ELSE {<<>>}
    /\ forward = <<"_", "1">>
    /\ reverse = <<"_", "2">>
    /\ output = <<"o">>
    /\ other_args \in OtherArgs
    /\ index_files \in SUBSET {<<"m.fa", ".1.bt2">>, <<"g.fa", ".fai">>}
    /\ pc = "start"
    /\ Idle

SpecVersion == InitVersion /\ [][NextMain]_vars

-----------------------------------------------------------------------------
(* srst2_gui.py: the form, its Run button and the callback Gui.run *)

\* text.strip(), the blank being the one whitespace character written here
strip(text) ==
    LET keep == {i \in 1..Len(text) : text[i] # " "}
    IN  IF keep = {} THEN <<>> ELSE SubSeq(text, Min(keep), Max(keep))

\* get_filenames_tuple: of a str that is not blank, tuple(value.strip()),
\* which is the tuple of its characters; a tuple as it is; else None
get_filenames_tuple(value) ==
    IF ~value.isList /\ Len(strip(value.files[1])) > 0
    THEN LET text == strip(value.files[1])
         IN  [c \in 1..Len(text) |-> <<text[c]>>]
    ELSE IF value.isList
         THEN value.files
         ELSE <<>>

\* DoubleVar.get() raises ValueError unless the text is a number
getdouble_raises(text) == text = <<>> \/ \E c \in 1..Len(text) : ~IsDigit(text[c])

\* What a file dialog or the typing into an entry may leave in a file
\* variable: nothing, the text " a.fq" or a tuple of two paths
FormValues ==
    { PyStr(<<>>),
      PyStr(<<" ", "a">> \o FQ),
      PyList(PairedBesideSingle) }

\* The texts the "Min Coverage" spin box may be left with
SpinTexts == { <<"9", "0">>, <<"5">>, <<>>, <<"x">> }

unchangedProgram ==
    UNCHANGED <<forward, reverse, output, other_args, mainVars, compVars, fileSets,
                forward_reads, reverse_reads, num_single_readsets,
                num_paired_readsets, printed>>

\* ask_single_end, or typing into the entry, while the main loop waits
ask_single_end ==
    /\ pc = "mainloop"
    /\ \E filename \in FormValues : single_end_variable' = filename
    /\ UNCHANGED <<pc, input_se, input_pe, run_button, paired_end_variable,
                   min_coverage_variable>>
    /\ unchangedProgram

\* ask_paired_end, or typing into the entry
ask_paired_end ==
    /\ pc = "mainloop"
    /\ \E filename \in FormValues : paired_end_variable' = filename
    /\ UNCHANGED <<pc, input_se, input_pe, run_button, single_end_variable,
                   min_coverage_variable>>
    /\ unchangedProgram

\* Typing into the "Min Coverage" spin box
EditMinCoverage ==
    /\ pc = "mainloop"
    /\ \E text \in SpinTexts : min_coverage_variable' = text
    /\ UNCHANGED <<pc, input_se, input_pe, run_button, single_end_variable,
                   paired_end_variable>>
    /\ unchangedProgram

\* A click on Run, which a disabled button does not take: Gui.run, lines 98
\* to 137.  The button is disabled and args is filled from the form; when
\* min_coverage_variable.get() raises, the exception leaves run, Tk reports
\* it and goes back to its main loop; else run is at its call of main_args.
Run ==
    /\ pc = "mainloop"
    /\ run_button = "normal"
    /\ run_button' = "disabled"
    /\ input_se' = get_filenames_tuple(single_end_variable)
    /\ input_pe' = get_filenames_tuple(paired_end_variable)
    /\ pc' = IF getdouble_raises(min_coverage_variable) THEN "mainloop" ELSE "main_args"
    /\ UNCHANGED <<single_end_variable, paired_end_variable, min_coverage_variable>>
    /\ unchangedProgram

\* main_args returns: line 139 puts the button back to normal and run returns
MainArgsReturns ==
    /\ pc = "main_args"
    /\ run_button' = "normal"
    /\ pc' = "mainloop"
    /\ UNCHANGED <<input_se, input_pe, single_end_variable, paired_end_variable,
                   min_coverage_variable>>
    /\ unchangedProgram

\* main_args raises an exception, such as the CommandError of run_command:
\* it leaves run before line 139, Tk reports it and goes back to its main loop
MainArgsRaises ==
    /\ pc = "main_args"
    /\ pc' = "mainloop"
    /\ UNCHANGED <<input_se, input_pe, guiVars>>
    /\ unchangedProgram

\* main_args calls exit, as check_command_version does: SystemExit ends the
\* program
MainArgsExits ==
    /\ pc = "main_args"
    /\ pc' = "exited"
    /\ UNCHANGED <<input_se, input_pe, guiVars>>
    /\ unchangedProgram

\* A click on Quit: Gui.quit destroys the window
quit ==
    /\ pc = "mainloop"
    /\ pc' = "destroyed"
    /\ UNCHANGED <<input_se, input_pe, guiVars>>
    /\ unchangedProgram

\* Gui(None) and app.mainloop()
InitGui ==
    /\ pc = "mainloop"
    /\ input_se = <<>>
    /\ input_pe = <<>>
    /\ forward = <<"_", "1">>
    /\ reverse = <<"_", "2">>
    /\ output = <<"s", "r", "s", "t", "2">>
    /\ other_args = NotGiven
    /\ index_files = {}
    /\ Idle

NextGui ==
    \/ ask_single_end
    \/ ask_paired_end
    \/ EditMinCoverage
    \/ Run
    \/ MainArgsReturns
    \/ MainArgsRaises
    \/ MainArgsExits
    \/ quit

SpecGui == InitGui /\ [][NextGui]_vars

-----------------------------------------------------------------------------
(* What the properties speak of *)

Range(seq) == {seq[i] : i \in DOMAIN seq}

\* The stem of a path, as read_file_sets computes it
Stem(fastq) == get_readFile_components(fastq)[2]

\* The list read_file_sets works on
ModeFiles == IF input_se # <<>> THEN input_se ELSE input_pe

PairedMode == input_se = <<>> /\ input_pe # <<>>

\* The keys whose entry holds the path f
KeysHolding(f) == {k \in DOMAIN fileSets : f \in Range(fileSets[k].files)}

\* The entries that are a pair, and those that hold one file
PairedEntries == {k \in DOMAIN fileSets : fileSets[k].isList /\ Len(fileSets[k].files) = 2}

SingleEntries == {k \in DOMAIN fileSets : Len(fileSets[k].files) = 1}

\* The number of lines printed with this message about this file
Printed(msg, f) == Cardinality({i \in DOMAIN printed : printed[i].msg = msg /\ printed[i].file = f})

\* The number of times f is named in the list xs
Count(xs, f) == Cardinality({i \in DOMAIN xs : xs[i] = f})

\* No path is named twice in the list xs
NoRepeat(xs) == \A i, j \in DOMAIN xs : i # j => xs[i] # xs[j]

\* s ends with the characters of d, each taken literally
EndsWith(s, d) == Len(d) <= Len(s) /\ Drop(s, Len(s) - Len(d)) = d

\* Neither designator has a character that a pattern reads specially
LiteralDesignators ==
    /\ \A i \in DOMAIN forward : forward[i] # "."
    /\ \A i \in DOMAIN reverse : reverse[i] # "."

\* s without its last n characters
Strip(s, n) == Take(s, Len(s) - n)

-----------------------------------------------------------------------------
(* C1 *)

\* C1: when read_file_sets returns, every input file is held by exactly one
\* entry of fileSets: none is missing and none is under two keys.
C1_EveryFileInOneEntry ==
    pc = "returned" =>
        \A f \in Range(ModeFiles) : Cardinality(KeysHolding(f)) = 1

-----------------------------------------------------------------------------
(* C2 *)

\* C2: when read_file_sets returns, num_paired_readsets is the number of
\* entries that are a pair and num_single_readsets the number of entries that
\* hold one file, for every input list (here: of files no two of which are the
\* same path), also when two of its files derive the same sample key.
C2_CountersCountEntries ==
    pc = "returned" /\ NoRepeat(ModeFiles) =>
        /\ num_paired_readsets = Cardinality(PairedEntries)
        /\ num_single_readsets = Cardinality(SingleEntries)

-----------------------------------------------------------------------------
(* C3 *)

\* The places of the "_" in s
Underscores(s) == {i \in 1..Len(s) : s[i] = "_"}

\* The place of the n-th "_" from the end of s (n >= 1)
RECURSIVE LastUnderscore(_, _)
LastUnderscore(s, n) ==
    IF n = 1 THEN Max(Underscores(s))
    ELSE Max({i \in Underscores(s) : i < LastUnderscore(s, n - 1)})

\* Reading a stem as X_S<a>_L<b>_R<r>_<c>, with a, b, r and c free of "_": its
\* last four "_" separate X, S<a>, L<b>, R<r> and c
ReadAsIllumina(stem) ==
    IF Cardinality(Underscores(stem)) < 4
    THEN [ok |-> FALSE]
    ELSE LET p4 == LastUnderscore(stem, 1)
             p3 == LastUnderscore(stem, 2)
             p2 == LastUnderscore(stem, 3)
             p1 == LastUnderscore(stem, 4)
         IN  IF p2 > p1 + 1 /\ stem[p1 + 1] = "S" /\
                p3 > p2 + 1 /\ stem[p2 + 1] = "L" /\
                p4 > p3 + 1 /\ stem[p3 + 1] = "R"
             THEN [ok |-> TRUE,
                   X  |-> Take(stem, p1 - 1),
                   a  |-> SubSeq(stem, p1 + 2, p2 - 1),
                   b  |-> SubSeq(stem, p2 + 2, p3 - 1),
                   r  |-> SubSeq(stem, p3 + 2, p4 - 1),
                   c  |-> Drop(stem, p4)]
             ELSE [ok |-> FALSE]

\* f1 and f2 are the R1 and the R2 file of one sample: their stems are
\* X_S<a>_L<b>_R1_<c> and X_S<a>_L<b>_R2_<c>
MatesOf(f1, f2) ==
    LET i1 == ReadAsIllumina(Stem(f1))
        i2 == ReadAsIllumina(Stem(f2))
    IN  /\ i1.ok /\ i2.ok
        /\ i1.r = <<"1">> /\ i2.r = <<"2">>
        /\ i1.X = i2.X /\ i1.a = i2.a /\ i1.b = i2.b /\ i1.c = i2.c

\* C3: in paired-end mode, the R1 and the R2 file of a sample X, given in
\* either order and nothing else, give exactly one entry, keyed X, that is the
\* list [R1 file, R2 file], with num_paired_readsets 1 and
\* num_single_readsets 0.
C3_IlluminaPair ==
    pc = "returned" /\ PairedMode /\ Len(input_pe) = 2 =>
        \A i \in {1, 2} :
            LET f1 == input_pe[i]
                f2 == input_pe[3 - i]
            IN  MatesOf(f1, f2) =>
                    /\ DOMAIN fileSets = {ReadAsIllumina(Stem(f1)).X}
                    /\ fileSets[ReadAsIllumina(Stem(f1)).X] = PyList(<<f1, f2>>)
                    /\ num_paired_readsets = 1
                    /\ num_single_readsets = 0

\* A pair was resolved from the R2 file given before the R1 file, for a sample
\* whose name itself looks like an Illumina file name
C3_Witness ==
    /\ pc = "returned"
    /\ Len(input_pe) = 2
    /\ MatesOf(input_pe[2], input_pe[1])
    /\ ReadAsIllumina(Stem(input_pe[1])).X = <<"s">> \o Tail1("3")
    /\ ReadAsIllumina(Stem(input_pe[1])).a = <<"0", "0", "1">>

-----------------------------------------------------------------------------
(* C4 *)

\* The file at place i of input_pe was taken as the mate of sample k in this
\* bucket: it is the bucket's file for k, unless a later file of the list took
\* its place there
TakenAs(bucket, i, k) ==
    /\ k \in DOMAIN bucket
    /\ \E j \in i..Len(input_pe) : bucket[k] = input_pe[j]

\* C4: in paired-end mode a stem that does not match the Illumina pattern is
\* the forward mate if it ends with the forward designator, else the reverse
\* mate if it ends with the reverse designator, keyed by the stem without that
\* designator; and with the designators _1 and _2 the files K_1 and K_2 give a
\* pair keyed K.
C4_SuffixClassification ==
    PairedMode /\ pc = "returned" =>
        /\ \A i \in DOMAIN input_pe :
               LET f    == input_pe[i]
                   stem == Stem(f)
               IN  ~MatchIllumina(stem).matched =>
                       IF EndsWith(stem, forward)
                       THEN /\ TakenAs(forward_reads, i, Strip(stem, Len(forward)))
                            /\ f \notin Range(reverse_reads)
                       ELSE IF EndsWith(stem, reverse)
                            THEN /\ TakenAs(reverse_reads, i, Strip(stem, Len(reverse)))
                                 /\ f \notin Range(forward_reads)
                            ELSE TRUE
        /\ forward = <<"_", "1">> /\ reverse = <<"_", "2">> =>
               \A f, g \in Range(input_pe) :
                   /\ ~MatchIllumina(Stem(f)).matched
                   /\ ~MatchIllumina(Stem(g)).matched
                   /\ EndsWith(Stem(f), forward)
                   /\ EndsWith(Stem(g), reverse)
                   /\ Strip(Stem(f), 2) = Strip(Stem(g), 2)
                   => /\ Strip(Stem(f), 2) \in PairedEntries
                      /\ NoRepeat(input_pe) /\ Len(input_pe) = 2 =>
                             fileSets[Strip(Stem(f), 2)] = PyList(<<f, g>>)

-----------------------------------------------------------------------------
(* C5 *)

\* The samples with one mate only, and that mate
OneMateSamples ==
    ((DOMAIN forward_reads) \cup (DOMAIN reverse_reads))
        \ ((DOMAIN forward_reads) \cap (DOMAIN reverse_reads))

OnlyMate(k) == IF k \in DOMAIN forward_reads THEN forward_reads[k] ELSE reverse_reads[k]

\* The places of input_pe whose file is an Illumina name with an _R value
\* that is neither _R1 nor _R2
OtherReadValue(f) ==
    LET m == MatchIllumina(Stem(f))
    IN  m.matched /\ m.groups[4] \notin {<<"_", "R", "1">>, <<"_", "R", "2">>}

OtherReadPlaces == {i \in DOMAIN input_pe : OtherReadValue(input_pe[i])}

\* C5: in paired-end mode a sample of which one mate only was found has one
\* entry, the one-file list of that mate whichever mate it is, one warning
\* that its pair is missing, and counts once in num_single_readsets (stated
\* here for designators without a ".").
C5_UnpairedEntry ==
    PairedMode /\ pc = "returned" /\ LiteralDesignators =>
        /\ \A k \in OneMateSamples :
               /\ k \in DOMAIN fileSets
               /\ fileSets[k] = PyList(<<OnlyMate(k)>>)
               /\ Printed("no_pair", OnlyMate(k)) = 1
        /\ num_single_readsets = Cardinality(OneMateSamples) + Cardinality(OtherReadPlaces)

-----------------------------------------------------------------------------
(* C6 *)

\* C6: in paired-end mode a file with an Illumina name whose _R value is
\* neither _R1 nor _R2 is reported, is in neither bucket, and when
\* read_file_sets returns is the one file of the entry keyed by its full stem.
C6_OtherReadValueKept ==
    PairedMode /\ pc = "returned" =>
        \A f \in Range(input_pe) :
            OtherReadValue(f) =>
                /\ Printed("could_not_determine", f) >= 1
                /\ f \notin Range(forward_reads) \cup Range(reverse_reads)
                /\ Stem(f) \in DOMAIN fileSets
                /\ fileSets[Stem(f)].files = <<f>>

-----------------------------------------------------------------------------
(* C7 *)

\* C7: in single-end mode n files with pairwise distinct stems give n entries,
\* each the one-file list of a file under its Illumina sample name when its
\* stem matches the Illumina pattern and under its stem otherwise, with
\* num_paired_readsets 0 and num_single_readsets n.
C7_SingleEndEntries ==
    /\ pc = "returned"
    /\ input_se # <<>>
    /\ \A i, j \in DOMAIN input_se : i # j => Stem(input_se[i]) # Stem(input_se[j])
    => /\ Cardinality(DOMAIN fileSets) = Len(input_se)
       /\ num_paired_readsets = 0
       /\ num_single_readsets = Len(input_se)
       /\ forward_reads = EmptyDict /\ reverse_reads = EmptyDict
       /\ \A f \in Range(input_se) :
              LET m   == MatchIllumina(Stem(f))
                  key == IF m.matched THEN m.groups[1] ELSE Stem(f)
              IN  key \in DOMAIN fileSets /\ fileSets[key] = PyList(<<f>>)

-----------------------------------------------------------------------------
(* C8 *)

GZ == <<".", "g", "z">>

\* C8: the stem and the full extension that get_readFile_components returns
\* make up the file name of the path again, and the extension ends with .gz
\* only for a file name that ends with .gz.
C8_ComponentsRoundTrip ==
    pc = "decomposed" =>
        LET file_name == os_path_split(full_file_path)[2]
        IN  /\ components[2] \o components[3] = file_name
            /\ EndsWith(components[3], GZ) <=> EndsWith(file_name, GZ)

-----------------------------------------------------------------------------
(* C10 *)

\* The stem of f matches neither the Illumina pattern nor a designator
Unclassifiable(f) ==
    /\ ~MatchIllumina(Stem(f)).matched
    /\ ~MatchDesignator(Stem(f), forward).matched
    /\ ~MatchDesignator(Stem(f), reverse).matched

Classifiable(f) == ~Unclassifiable(f)

\* What read_file_sets computes from the paired-end list without its
\* unclassifiable files
WithoutUnclassifiable ==
    LET st == PairedEndLoop(Fresh, SelectSeq(input_pe, Classifiable), forward, reverse)
        fo == CHOOSE o \in Orders(DOMAIN st.forward_reads) : TRUE
        ro == CHOOSE o \in Orders(DOMAIN st.reverse_reads) : TRUE
    IN  ReverseLoop(ForwardLoop(st, fo), ro)

\* C10: in paired-end mode a file that matches no pattern is reported, is in no
\* entry and in no bucket, and the mapping and the counters are the ones the
\* other files of the list give without it.
C10_UnclassifiableLeftOut ==
    PairedMode /\ pc = "returned" =>
        /\ \A f \in Range(input_pe) :
               Unclassifiable(f) =>
                   /\ Printed("could_not_determine", f) = Count(input_pe, f)
                   /\ KeysHolding(f) = {}
                   /\ f \notin Range(forward_reads) \cup Range(reverse_reads)
        /\ LET without == WithoutUnclassifiable
           IN  /\ fileSets = without.fileSets
               /\ forward_reads = without.forward_reads
               /\ reverse_reads = without.reverse_reads
               /\ num_single_readsets = without.num_single_readsets
               /\ num_paired_readsets = without.num_paired_readsets

\* A list with an unclassifiable file between the two mates of a sample was
\* resolved: the pair was made
C10_Witness ==
    /\ PairedMode
    /\ pc = "returned"
    /\ Len(input_pe) = 3
    /\ Unclassifiable(input_pe[2])
    /\ ~Unclassifiable(input_pe[1])
    /\ ~Unclassifiable(input_pe[3])
    /\ num_paired_readsets = 1
    /\ Cardinality(DOMAIN fileSets) = 1

-----------------------------------------------------------------------------
(* C9 *)

\* The places of the log where a job was submitted
Submitted == {i \in DOMAIN log : log[i].step = "sbatch"}

\* C9: when main is done it has built one command for every entry of
\* fileSets: --input_pe with the forward and the reverse file and both
\* designators exactly for an entry that is a pair, else --input_se with the
\* one path of the entry, and --output made of the sample key and the label.
C9_OneJobPerEntry ==
    pc = "done" =>
        /\ \A k \in DOMAIN fileSets : Cardinality({i \in Submitted : log[i].sample = k}) = 1
        /\ Cardinality(Submitted) = Cardinality(DOMAIN fileSets)
        /\ \A i \in Submitted :
               LET entry == fileSets[log[i].sample]
                   cmd   == log[i].cmd
               IN  /\ cmd.output = log[i].sample \o <<"_">> \o output
                   /\ cmd.files = entry.files
                   /\ IF Len(entry.files) = 2
                      THEN /\ cmd.input = "--input_pe"
                           /\ cmd.forward = forward
                           /\ cmd.reverse = reverse
                      ELSE cmd.input = "--input_se"

-----------------------------------------------------------------------------
(* C11 *)

\* Neither --input_se nor --input_pe names a file
NoFilesSupplied == input_se = <<>> /\ input_pe = <<>>

\* The places the program stops at with an error
HardFailure == pc \in {"crashed", "exited"}

\* C11: with no files supplied at all read_file_sets never returns a result
\* to its caller as if nothing were wrong, and with files supplied it never
\* ends in a failure, whatever it could not classify.
C11_NoFilesIsHardFailure ==
    /\ NoFilesSupplied => pc # "returned"
    /\ ~NoFilesSupplied => ~HardFailure

-----------------------------------------------------------------------------
(* C12 *)

\* Both --input_se and --input_pe name files
BothSupplied == input_se # <<>> /\ input_pe # <<>>

\* The paired-end files that are not among the single-end files as well
OnlyPairedEnd == Range(input_pe) \ Range(input_se)

\* C12: when both lists are supplied only the single-end branch runs: the
\* paired-end loops are never entered, every entry is a list of one
\* single-end file, no file that is only in the paired-end list is in the
\* result, there is no pair and the paired counter stays 0.  (A path that is
\* in both lists is in the result as the single-end file it also is.)
C12_SingleEndOnly ==
    BothSupplied =>
        /\ pc # "classified"
        /\ forward_reads = EmptyDict
        /\ reverse_reads = EmptyDict
        /\ \A k \in DOMAIN fileSets :
               /\ fileSets[k].isList
               /\ Len(fileSets[k].files) = 1
               /\ fileSets[k].files[1] \in Range(input_se)
        /\ \A f \in OnlyPairedEnd : KeysHolding(f) = {}
        /\ PairedEntries = {}
        /\ num_paired_readsets = 0
        /\ \A i \in DOMAIN printed : printed[i].msg # "total_paired"

\* Both lists were supplied, the two single-end files are in the result and
\* a file that is only in the paired-end list was left aside
C12_Witness ==
    /\ BothSupplied
    /\ pc = "returned"
    /\ Len(input_se) = 2
    /\ Cardinality(DOMAIN fileSets) = 2
    /\ num_single_readsets = 2
    /\ OnlyPairedEnd # {}
    /\ Range(input_pe) \cap Range(input_se) # {}

-----------------------------------------------------------------------------
(* C13 *)

\* The places of the log where a command of this kind was run
Places(step) == {i \in DOMAIN log : log[i].step = step}

\* The index builds of both kinds
Builds == Places("bowtie2-build") \cup Places("samtools faidx")

\* Every place of A is before every place of B
AllBefore(A, B) == \A i \in A, j \in B : i < j

\* C13: no external command is run before read_file_sets has returned; every
\* bowtie2-build comes after the bowtie2 version check and every samtools
\* faidx after the samtools version check; every index build comes before the
\* first job; and a job is submitted only when both version checks were made
\* and both index loops are over.
C13_OrderOfSteps ==
    /\ log # <<>> => pc \notin {"start", "classified", "stored", "returned"}
    /\ Places("bowtie2-build") # {} =>
           /\ Places("bowtie2 --version") # {}
           /\ AllBefore(Places("bowtie2 --version"), Places("bowtie2-build"))
    /\ Places("samtools faidx") # {} =>
           /\ Places("samtools") # {}
           /\ AllBefore(Places("samtools"), Places("samtools faidx"))
    /\ AllBefore(Builds, Places("sbatch"))
    /\ Places("sbatch") # {} =>
           /\ pc \in {"job", "done"}
           /\ Places("bowtie2 --version") # {}
           /\ Places("samtools") # {}
           /\ AllBefore(DOMAIN log \ Places("sbatch"), Places("sbatch"))

\* A run that built an index of each kind and then submitted two jobs
C13_Witness ==
    /\ pc = "done"
    /\ Places("bowtie2-build") # {}
    /\ Places("samtools faidx") # {}
    /\ Cardinality(Places("sbatch")) = 2

-----------------------------------------------------------------------------
(* C14 *)

\* The version check at place i of the log did not accept the tool
VersionRejected(i) ==
    /\ log[i].step \in {"bowtie2 --version", "samtools"}
    /\ ~log[i].accepted

\* The index build at place i of the log could not be launched or exited
\* with a non-zero status
BuildFailed(i) ==
    /\ i \in Builds
    /\ log[i].result \in {"nonzero", "oserror"}

\* After a rejected version check or a failed index build nothing else is
\* run: it is the last command of the log, main has stopped, and no job was
\* submitted
StopsAtFailure ==
    \A i \in DOMAIN log :
        /\ VersionRejected(i) => i = Len(log) /\ pc = "exited" /\ Places("sbatch") = {}
        /\ BuildFailed(i) => i = Len(log) /\ pc = "crashed" /\ Places("sbatch") = {}

\* The suffix of the index file of each kind of build
IndexSuffix(step) == IF step = "bowtie2-build" THEN ".1.bt2" ELSE ".fai"

\* A step that runs an index build runs it for a file whose index file is
\* not there
BuildsOnlyMissing ==
    \A i \in DOMAIN log' :
        (i > Len(log) /\ log'[i].step \in {"bowtie2-build", "samtools faidx"})
            => <<log'[i].fasta, IndexSuffix(log'[i].step)>> \notin index_files

\* C14: a rejected version check or an index build that cannot be launched
\* or exits with a non-zero status stops main: no index build follows it and
\* no job is submitted; and an index build is run for a reference file only
\* when that file's index file does not exist.
C14_FailureStopsMain == []StopsAtFailure /\ [][BuildsOnlyMissing]_vars

\* The bowtie2 index of one database was there and was not built again, the
\* other was built, and then a samtools faidx failed and stopped main
C14_Witness ==
    /\ pc = "crashed"
    /\ Len(log) >= 4
    /\ BuildFailed(Len(log))
    /\ log[Len(log)].step = "samtools faidx"
    /\ \E i \in Places("bowtie2-build") : log[i].result = "ok"
    /\ \E k \in DOMAIN db :
           /\ <<db[k], ".1.bt2">> \in index_files
           /\ \A i \in Places("bowtie2-build") : log[i].fasta # db[k]

-----------------------------------------------------------------------------
(* C15 *)

\* The places of the log where check_command_version ran a version command
VersionChecks == Places("bowtie2 --version") \cup Places("samtools")

\* C15: a call of check_command_version ends the program exactly when the
\* version command could not be launched or the checker rejects what the
\* command wrote; when the command exits with a non-zero status what it wrote
\* is still what the checker is called with, and a verdict of acceptance lets
\* the call return, after which the program goes on; and the program is at
\* its exit only through such a call.
C15_ExitExactlyOnReject ==
    /\ \A i \in VersionChecks :
           LET e       == log[i]
               rejects == ~version_checker(e.step, e.command_stdout)
           IN  /\ e.result = "exit" <=> (e.launch = "oserror" \/ rejects)
               /\ e.result = "return" <=> (e.launch # "oserror" /\ ~rejects)
               /\ e.launch = "nonzero" => e.checked = <<e.command_stdout>>
               /\ e.result = "exit" => i = Len(log) /\ pc = "exited"
               /\ (e.result = "return" /\ i = Len(log)) => pc \notin {"exited", "crashed"}
    /\ pc = "exited" => Len(log) \in VersionChecks

\* Both version commands exited with a non-zero status, their output was
\* accepted, and main went on to submit a job
C15_Witness ==
    /\ pc = "done"
    /\ Places("sbatch") # {}
    /\ \A i \in VersionChecks : log[i].launch = "nonzero" /\ log[i].result = "return"
    /\ Cardinality(VersionChecks) = 2

-----------------------------------------------------------------------------
(* C16 *)

\* C16: the Run button is disabled while Gui.run is at its call of the
\* pipeline and normal whenever the form waits in its main loop, also after a
\* run that ended with an exception, so that Run can be clicked again.
C16_RunButtonFollowsRun ==
    /\ pc = "main_args" => run_button = "disabled"
    /\ pc = "mainloop" => run_button = "normal"

====
